---- MODULE Spec2Model ----
(***************************************************************************)
(* Model of swift::SILType (include/swift/SIL/SILType.h): a lowered-type   *)
(* handle packed into one machine word by llvm::PointerIntPair<Type, 2>,   *)
(* together with its PointerLikeTypeTraits and DenseMapInfo adapters.      *)
(*                                                                         *)
(* A handle is modelled by the machine word it stores.  Words are WordBits *)
(* wide; type descriptors are TypeBase allocations, aligned to             *)
(* 2^TypeAlignInBits bytes.  assert() is modelled as compiled in: a failed *)
(* assertion aborts the program (pc = "aborted") and nothing is returned.  *)
(***************************************************************************)
EXTENDS Integers, Naturals, FiniteSets, Sequences, TLC

VARIABLES a, b, slot, last, pc

vars == <<a, b, slot, last, pc>>

----------------------------------------------------------------------------
(* Bounds of the model *)

\* number of type descriptors allocated by the type registry
NumTypes == 3

\* width of a machine word (intptr_t) in the model
WordBits == 6

----------------------------------------------------------------------------
(* Word arithmetic *)

RECURSIVE Pow2(_)
Pow2(n) == IF n = 0 THEN 1 ELSE 2 * Pow2(n - 1)

WordMod == Pow2(WordBits)

Words == 0 .. (WordMod - 1)

RECURSIVE BitAnd(_, _)
BitAnd(x, y) ==
    IF x = 0 \/ y = 0 THEN 0
    ELSE (IF x % 2 = 1 /\ y % 2 = 1 THEN 1 ELSE 0) + 2 * BitAnd(x \div 2, y \div 2)

RECURSIVE BitOr(_, _)
BitOr(x, y) ==
    IF x = 0 THEN y
    ELSE IF y = 0 THEN x
    ELSE (IF x % 2 = 1 \/ y % 2 = 1 THEN 1 ELSE 0) + 2 * BitOr(x \div 2, y \div 2)

RECURSIVE BitXor(_, _)
BitXor(x, y) ==
    IF x = 0 THEN y
    ELSE IF y = 0 THEN x
    ELSE (IF (x % 2) # (y % 2) THEN 1 ELSE 0) + 2 * BitXor(x \div 2, y \div 2)

\* x & ~m
BitClear(x, m) == x - BitAnd(x, m)

\* x << n in a WordBits-wide unsigned word
Shl(x, n) == (x * Pow2(n)) % WordMod

\* x >> n
Shr(x, n) == x \div Pow2(n)

\* a C++ bool converted to int
BoolToInt(f) == IF f THEN 1 ELSE 0

----------------------------------------------------------------------------
(* The type registry: Type / TypeBase (swift/AST/Type.h, Types.h) *)

\* PointerLikeTypeTraits<Type>::NumLowBitsAvailable
TypeAlignInBits == 3

\* the null Type
NullPtr == 0

\* addresses of the allocated type descriptors
TypePtrs == { i * Pow2(TypeAlignInBits) : i \in 1 .. NumTypes }

\* the one descriptor that is an LValueType
LValuePtr == NumTypes * Pow2(TypeAlignInBits)

\* TypeBase::is<LValueType>()
isLValueType(ty) == ty = LValuePtr

----------------------------------------------------------------------------
(* llvm::PointerIntPair<Type, 2>, the ValueType of SILType *)

IntBits == 2

\* PointerIntPair::IntShift
IntShift == TypeAlignInBits - IntBits

\* PointerIntPair::getPointer: Value & PointerBitMask
getPointer(v) == v - (v % Pow2(TypeAlignInBits))

\* PointerIntPair::getInt: (Value >> IntShift) & IntMask
getInt(v) == Shr(v, IntShift) % Pow2(IntBits)

\* PointerIntPair(PointerTy, IntType): setPointerAndInt
ValueType(ptr, int) == BitOr(ptr, Shl(int, IntShift))

----------------------------------------------------------------------------
(* swift::SILType *)

IsAddressFlag == 1

IsLoadableFlag == 2

\* the assertions of the private constructor
SILType_assert(ty, address, loadable) ==
    /\ (address \/ loadable)
    /\ ~(ty # NullPtr /\ isLValueType(ty))

SILType_swapped(ty, address, loadable) ==
    ValueType(ty, BitOr(Shl(BoolToInt(loadable), 0), Shl(BoolToInt(address), 1)))

\* the private constructor SILType(CanType, bool, bool)
SILType(ty, address, loadable) ==
    ValueType(ty, BitOr(Shl(BoolToInt(address), 0), Shl(BoolToInt(loadable), 1)))

\* the default constructor
SILType_default == 0

isNull(v) == getPointer(v) = NullPtr

OpEq_pointerOnly(v, w) == getPointer(v) = getPointer(w)

\* operator==
OpEq(v, w) == v = w

\* operator!=
OpNe(v, w) == v # w

getAddressType_dropLoadable(v) == ValueType(getPointer(v), IsAddressFlag)

getAddressType(v) == ValueType(getPointer(v), BitOr(getInt(v), IsAddressFlag))

\* the assertion of getObjectType
getObjectType_assert(v) == BitOr(getInt(v), IsLoadableFlag) # 0

getObjectType_clearLoadable(v) ==
    ValueType(getPointer(v), BitClear(getInt(v), IsLoadableFlag))

getObjectType(v) == ValueType(getPointer(v), BitClear(getInt(v), IsAddressFlag))

getSwiftRValueType(v) == getPointer(v)

isAddress(v) == BitAnd(getInt(v), IsAddressFlag) # 0

isLoadable(v) == BitAnd(getInt(v), IsLoadableFlag) # 0

isAddressOnly(v) == ~isLoadable(v)

getOpaqueValue(v) == v

getFromOpaqueValue_pointerOnly(P) == getPointer(P)

getFromOpaqueValue(P) == P

----------------------------------------------------------------------------
(* llvm::PointerLikeTypeTraits<swift::SILType> *)

getFromVoidPointer(P) == getFromOpaqueValue(P)

getAsVoidPointer(T) == getOpaqueValue(T)

NumLowBitsAvailable_bitsUsed == IntBits

NumLowBitsAvailable == 1

----------------------------------------------------------------------------
(* llvm::DenseMapInfo<void*> and llvm::DenseMapInfo<swift::SILType> *)

\* PointerLikeTypeTraits<void*>::NumLowBitsAvailable
VoidPtrLowBits == 2

\* DenseMapInfo<void*>::getEmptyKey: (uintptr_t)-1 << NumLowBitsAvailable
PointerMapInfo_getEmptyKey == Shl(WordMod - 1, VoidPtrLowBits)

\* DenseMapInfo<void*>::getTombstoneKey: (uintptr_t)-2 << NumLowBitsAvailable
PointerMapInfo_getTombstoneKey == Shl(WordMod - 2, VoidPtrLowBits)

\* DenseMapInfo<void*>::getHashValue
PointerMapInfo_getHashValue(P) == BitXor(Shr(P, 4), Shr(P, 9))

getEmptyKey == getFromOpaqueValue(PointerMapInfo_getEmptyKey)

getTombstoneKey_asEmpty == getFromOpaqueValue(PointerMapInfo_getEmptyKey)

getTombstoneKey == getFromOpaqueValue(PointerMapInfo_getTombstoneKey)

getHashValue(t) == PointerMapInfo_getHashValue(getOpaqueValue(t))

isEqual_pointerOnly(LHS, RHS) == getPointer(LHS) = getPointer(RHS)

isEqual(LHS, RHS) == OpEq(LHS, RHS)

----------------------------------------------------------------------------
(* An outer tagging scheme over SILType: llvm::PointerIntPair<SILType, 1>, *)
(* which takes its bit from PointerLikeTypeTraits<SILType>.                *)

OuterIntBits == 1

OuterIntShift == NumLowBitsAvailable - OuterIntBits

\* setPointer's assertion: the low NumLowBitsAvailable bits are clear
Outer_assert(T) == getAsVoidPointer(T) % Pow2(NumLowBitsAvailable) = 0

\* PointerIntPair<SILType, 1>(T, tag)
Outer_pack(T, tag) == BitOr(getAsVoidPointer(T), Shl(tag, OuterIntShift))

\* PointerIntPair<SILType, 1>::getPointer
Outer_getPointer(w) == getFromVoidPointer(w - (w % Pow2(NumLowBitsAvailable)))

\* PointerIntPair<SILType, 1>::getInt
Outer_getInt(w) == Shr(w, OuterIntShift) % Pow2(OuterIntBits)

----------------------------------------------------------------------------
(* State *)

Origins == {"default", "gated", "key"}

Ops == {"init", "SILType", "getPreLoweredType", "getAddressType",
        "getObjectType", "copy", "getOpaqueValue", "getFromOpaqueValue",
        "getEmptyKey", "getTombstoneKey", "setTag", "getTagged"}

NoArgs == [ty |-> NullPtr, address |-> FALSE, loadable |-> FALSE]

Done(op) == [op |-> op, args |-> NoArgs]

Init ==
    /\ a = [value |-> SILType_default, from |-> "default"]
    /\ b = [value |-> SILType_default, from |-> "default"]
    /\ slot = [kind |-> "none", word |-> 0, from |-> "default"]
    /\ last = Done("init")
    /\ pc = "run"

\* SILType() = default
DefaultConstruct ==
    /\ pc = "run"
    /\ a' = [value |-> SILType_default, from |-> "default"]
    /\ last' = Done("SILType")
    /\ UNCHANGED <<b, slot, pc>>

\* SILType::getPreLoweredType(t, address, loadable), the gated factory
GetPreLoweredType(ty, address, loadable) ==
    /\ pc = "run"
    /\ last' = [op |-> "getPreLoweredType",
                args |-> [ty |-> ty, address |-> address, loadable |-> loadable]]
    /\ IF SILType_assert(ty, address, loadable)
       THEN /\ a' = [value |-> SILType(ty, address, loadable), from |-> "gated"]
            /\ UNCHANGED <<b, slot, pc>>
       ELSE /\ pc' = "aborted"
            /\ UNCHANGED <<a, b, slot>>

\* a = a.getAddressType()
GetAddressType ==
    /\ pc = "run"
    /\ a' = [a EXCEPT !.value = getAddressType(a.value)]
    /\ last' = Done("getAddressType")
    /\ UNCHANGED <<b, slot, pc>>

\* a = a.getObjectType()
GetObjectType ==
    /\ pc = "run"
    /\ last' = Done("getObjectType")
    /\ IF getObjectType_assert(a.value)
       THEN /\ a' = [a EXCEPT !.value = getObjectType(a.value)]
            /\ UNCHANGED <<b, slot, pc>>
       ELSE /\ pc' = "aborted"
            /\ UNCHANGED <<a, b, slot>>

\* b = a (handles are freely copyable values)
Copy ==
    /\ pc = "run"
    /\ b' = a
    /\ last' = Done("copy")
    /\ UNCHANGED <<a, slot, pc>>

\* slot = a.getOpaqueValue()
GetOpaqueValue ==
    /\ pc = "run"
    /\ slot' = [kind |-> "opaque", word |-> getOpaqueValue(a.value), from |-> a.from]
    /\ last' = Done("getOpaqueValue")
    /\ UNCHANGED <<a, b, pc>>

\* a = SILType::getFromOpaqueValue(slot), for a previously exported word
GetFromOpaqueValue ==
    /\ pc = "run"
    /\ slot.kind = "opaque"
    /\ a' = [value |-> getFromOpaqueValue(slot.word), from |-> slot.from]
    /\ last' = Done("getFromOpaqueValue")
    /\ UNCHANGED <<b, slot, pc>>

\* a = DenseMapInfo<SILType>::getEmptyKey()
GetEmptyKey ==
    /\ pc = "run"
    /\ a' = [value |-> getEmptyKey, from |-> "key"]
    /\ last' = Done("getEmptyKey")
    /\ UNCHANGED <<b, slot, pc>>

\* a = DenseMapInfo<SILType>::getTombstoneKey()
GetTombstoneKey ==
    /\ pc = "run"
    /\ a' = [value |-> getTombstoneKey, from |-> "key"]
    /\ last' = Done("getTombstoneKey")
    /\ UNCHANGED <<b, slot, pc>>

\* slot = PointerIntPair<SILType, 1>(a, tag)
SetTag(tag) ==
    /\ pc = "run"
    /\ last' = Done("setTag")
    /\ IF Outer_assert(a.value)
       THEN /\ slot' = [kind |-> "tagged", word |-> Outer_pack(a.value, tag),
                        from |-> a.from]
            /\ UNCHANGED <<a, b, pc>>
       ELSE /\ pc' = "aborted"
            /\ UNCHANGED <<a, b, slot>>

\* a = slot.getPointer(), the tag bit cleared
GetTagged ==
    /\ pc = "run"
    /\ slot.kind = "tagged"
    /\ a' = [value |-> Outer_getPointer(slot.word), from |-> slot.from]
    /\ last' = Done("getTagged")
    /\ UNCHANGED <<b, slot, pc>>

Next ==
    \/ DefaultConstruct
    \/ \E ty \in TypePtrs \cup {NullPtr}, address \in BOOLEAN, loadable \in BOOLEAN :
          GetPreLoweredType(ty, address, loadable)
    \/ GetAddressType
    \/ GetObjectType
    \/ Copy
    \/ GetOpaqueValue
    \/ GetFromOpaqueValue
    \/ GetEmptyKey
    \/ GetTombstoneKey
    \/ \E tag \in 0 .. 1 : SetTag(tag)
    \/ GetTagged

Spec == Init /\ [][Next]_vars

TypeOK ==
    /\ a \in [value : Words, from : Origins]
    /\ b \in [value : Words, from : Origins]
    /\ slot \in [kind : {"none", "opaque", "tagged"}, word : Words, from : Origins]
    /\ last.op \in Ops
    /\ pc \in {"run", "aborted"}

----------------------------------------------------------------------------
(* Properties *)

\* the handles the program currently holds
Held == {a, b}

\* the (underlying type, isAddress, isLoadable) triple a handle reports
Triple(v) == <<getSwiftRValueType(v), isAddress(v), isLoadable(v)>>

\* C1 (as stated): every non-null handle that comes from the gated
\* constructor, possibly through address/object conversions and opaque
\* round trips, is an address or loadable.
C1_AddressOrLoadable ==
    \A h \in Held :
        (h.from = "gated" /\ ~isNull(h.value))
            => (isAddress(h.value) \/ isLoadable(h.value))

\* C2 (as stated): getObjectType() on an address-only handle fails its
\* assertion and returns no handle.
C2_ObjectTypeAsserts ==
    [][(last'.op = "getObjectType" /\ isAddress(a.value) /\ ~isLoadable(a.value))
          => (pc' = "aborted" /\ a' = a)]_vars

\* C3 (as stated): among handles from default construction, the gated
\* constructor and the conversions, two null handles are equal and a null
\* handle differs from every non-null handle.
C3_NullIsOneValue ==
    \A h \in Held : \A k \in Held :
        (h.from # "key" /\ k.from # "key" /\ isNull(h.value))
            => /\ isNull(k.value) => OpEq(h.value, k.value)
               /\ ~isNull(k.value) => OpNe(h.value, k.value)

\* C3 (amended): two null handles are equal exactly when they carry the
\* same isAddress and isLoadable flags, and a null handle differs from
\* every non-null handle.
C3_NullIdentityByFlags ==
    \A h \in Held : \A k \in Held :
        (h.from # "key" /\ k.from # "key" /\ isNull(h.value))
            => /\ isNull(k.value) =>
                    (OpEq(h.value, k.value) <=>
                        (isAddress(h.value) = isAddress(k.value)
                         /\ isLoadable(h.value) = isLoadable(k.value)))
               /\ ~isNull(k.value) =>
                    (OpNe(h.value, k.value) /\ ~OpEq(h.value, k.value))

C3_Witness ==
    /\ a.from = "gated" /\ b.from = "default"
    /\ isNull(a.value) /\ isNull(b.value)
    /\ isAddress(a.value) /\ ~isAddress(b.value)
    /\ last.op = "getPreLoweredType" /\ pc = "run"

\* C4: the empty key and the tombstone key differ, and neither equals a
\* handle made by the gated constructor over a registered type, nor one
\* derived from it by the address/object conversions.
C4_SentinelDisjoint ==
    /\ OpNe(getEmptyKey, getTombstoneKey)
    /\ ~isEqual(getEmptyKey, getTombstoneKey)
    /\ \A h \in Held :
          (h.from = "gated" /\ getSwiftRValueType(h.value) \in TypePtrs)
              => /\ ~isEqual(h.value, getEmptyKey)
                 /\ ~isEqual(h.value, getTombstoneKey)

C4_Witness ==
    /\ a.from = "key" /\ a.value = getEmptyKey
    /\ b.from = "gated" /\ getSwiftRValueType(b.value) \in TypePtrs
    /\ getInt(b.value) = getInt(a.value)

\* C5: for a loadable, non-address handle h, h.getAddressType() is a
\* loadable address of the same underlying type, and its getObjectType()
\* passes the assertion and equals h.
C5_AddressObjectRoundTrip ==
    \A h \in Held :
        (~isAddress(h.value) /\ isLoadable(h.value))
            => LET m == getAddressType(h.value)
               IN  /\ isAddress(m) /\ isLoadable(m)
                   /\ getSwiftRValueType(m) = getSwiftRValueType(h.value)
                   /\ getObjectType_assert(m)
                   /\ OpEq(getObjectType(m), h.value)

C5_Witness ==
    /\ last.op = "getObjectType" /\ pc = "run"
    /\ a.from = "gated" /\ ~isNull(a.value)
    /\ ~isAddress(a.value) /\ isLoadable(a.value)
    /\ b = a

\* C6: for a valid handle h (null, or an address, or loadable),
\* getFromOpaqueValue(h.getOpaqueValue()) equals h and reports the same
\* underlying type and flags; a handle rebuilt from an exported word
\* exports that word again.
C6_OpaqueRoundTrip ==
    /\ \A h \in Held :
          (isNull(h.value) \/ isAddress(h.value) \/ isLoadable(h.value))
              => LET r == getFromVoidPointer(getAsVoidPointer(h.value))
                 IN  /\ OpEq(r, h.value)
                     /\ Triple(r) = Triple(h.value)
    /\ (last.op = "getFromOpaqueValue" /\ pc = "run")
          => getOpaqueValue(a.value) = slot.word

C6_Witness ==
    /\ last.op = "getFromOpaqueValue" /\ pc = "run"
    /\ ~isNull(a.value) /\ isAddress(a.value) /\ ~isLoadable(a.value)

\* C7: getAddressType() is idempotent, is the identity on a handle that is
\* already an address, and keeps the underlying type and isLoadable().
C7_AddressIdempotent ==
    \A h \in Held :
        LET m == getAddressType(h.value)
        IN  /\ OpEq(getAddressType(m), m)
            /\ isAddress(h.value) => OpEq(m, h.value)
            /\ isAddress(m)
            /\ getSwiftRValueType(m) = getSwiftRValueType(h.value)
            /\ isLoadable(m) = isLoadable(h.value)

C7_Witness ==
    /\ last.op = "getAddressType" /\ pc = "run"
    /\ ~isNull(a.value) /\ isAddress(a.value) /\ isLoadable(a.value)
    /\ ~isAddress(b.value) /\ getSwiftRValueType(b.value) = getSwiftRValueType(a.value)

\* C8: two handles are == exactly when they report the same underlying
\* type, isAddress() and isLoadable(); != is the negation; DenseMapInfo's
\* isEqual agrees with ==; equal handles hash alike.
C8_StructuralEquality ==
    \A h \in Held : \A k \in Held :
        /\ OpEq(h.value, k.value) <=> (Triple(h.value) = Triple(k.value))
        /\ OpNe(h.value, k.value) <=> ~OpEq(h.value, k.value)
        /\ isEqual(h.value, k.value) <=> OpEq(h.value, k.value)
        /\ OpEq(h.value, k.value) => getHashValue(h.value) = getHashValue(k.value)

C8_Witness ==
    /\ last.op = "getPreLoweredType" /\ pc = "run"
    /\ a.from = "gated" /\ b.from = "gated"
    /\ ~isNull(a.value) /\ ~isNull(b.value)
    /\ getSwiftRValueType(a.value) = getSwiftRValueType(b.value)
    /\ isAddress(a.value) /\ ~isAddress(b.value)

\* C9: the gated constructor with address = false and loadable = false
\* fails its assertion; with any other flags over a lowered type it
\* returns a handle reporting exactly the supplied type and flags.
C9_GatedConstruction ==
    last.op = "getPreLoweredType"
        => LET ar == last.args
           IN  /\ (~ar.address /\ ~ar.loadable) => pc = "aborted"
               /\ ((ar.address \/ ar.loadable) /\ ~isLValueType(ar.ty))
                     => /\ pc = "run"
                        /\ a.from = "gated"
                        /\ getSwiftRValueType(a.value) = ar.ty
                        /\ isNull(a.value) = (ar.ty = NullPtr)
                        /\ isAddress(a.value) = ar.address
                        /\ isLoadable(a.value) = ar.loadable
                        /\ isAddressOnly(a.value) = ~ar.loadable

C9_Witness ==
    /\ last.op = "getPreLoweredType" /\ pc = "aborted"
    /\ last.args.ty \in TypePtrs /\ ~isLValueType(last.args.ty)
    /\ ~last.args.address /\ ~last.args.loadable

\* C10: over a reference with 3 free low bits the two flags take 2 of
\* them and the lowest NumLowBitsAvailable = 1 bit stays zero; tagging a
\* handle in that bit and clearing the tag gives back an equal handle.
C10_LowBitBudget ==
    /\ TypeAlignInBits - IntBits = NumLowBitsAvailable
    /\ \A h \in Held :
          /\ h.value % Pow2(NumLowBitsAvailable) = 0
          /\ h.value = getPointer(h.value) + getInt(h.value) * Pow2(NumLowBitsAvailable)
          /\ Outer_assert(h.value)
          /\ \A tag \in 0 .. 1 :
                LET r == Outer_getPointer(Outer_pack(h.value, tag))
                IN  /\ Outer_getInt(Outer_pack(h.value, tag)) = tag
                    /\ OpEq(r, h.value)
                    /\ Triple(r) = Triple(h.value)
    /\ (last.op = "getTagged" /\ pc = "run")
          => a.value + Outer_getInt(slot.word) = slot.word

C10_Witness ==
    /\ last.op = "getTagged" /\ pc = "run"
    /\ Outer_getInt(slot.word) = 1
    /\ ~isNull(a.value) /\ isAddress(a.value) /\ isLoadable(a.value)

====
